---------------------------- MODULE Spec2Model ----------------------------
(***************************************************************************)
(* A model of BXT_lookup_direct_to_filing.py: the rate-limited, retrying   *)
(* fetch (sec_get), the document resolver (get_native_filing_url) and the  *)
(* filings query (get_filings).                                            *)
(*                                                                         *)
(* Time is counted in units of 100 ms.  Text is a sequence of one-letter   *)
(* strings, so that strip, lower, endswith, replace and zfill are          *)
(* computed letter by letter.                                              *)
(***************************************************************************)
EXTENDS Integers, Sequences, FiniteSets, TLC

VARIABLES
    age,                \* time.time() - _last_request_time, counted up to Interval
    ticks,              \* how many unit steps the clock has taken
    throttled,          \* how many 429 answers the upstream has given
    rate_limit_lock,    \* the caller holding _rate_limit_lock, or NoOne
    gaps,               \* history: the age at each write of _last_request_time
    pc,                 \* per caller: the line of sec_get it is at
    attempt,            \* per caller: the loop variable of sec_get
    timer,              \* per caller: what is left of its current time.sleep
    answers,            \* per caller, history: what each requests.get gave
    delays,             \* per caller, history: each backoff passed to sleep
    trace,              \* per caller, history: "acquire" and "get" events
    result,             \* per caller: the status of the response returned
    resolver,           \* one call of get_native_filing_url
    query,              \* one call of get_filings
    app                 \* the window, its worker thread and its event loop

fetchVars == <<age, ticks, throttled, rate_limit_lock, gaps, pc, attempt,
               timer, answers, delays, trace, result>>

vars == <<fetchVars, resolver, query, app>>

----------------------------------------------------------------------------
(* Bounds of the model. *)

\* The threads calling sec_get, one call each.
NCallers == 2

\* The clock takes at most this many steps of 100 ms; beyond them time
\* passes a whole sleep at a time.
MaxTicks == 3

\* The upstream answers 429 at most this many times.
MaxThrottled == 3

\* A listing page holds at most this many links.
MaxLinks == 3

\* Each array of a manifest holds at most this many entries.
MaxFilings == 3

\* Each array of a manifest answered to a search of the window holds at most
\* this many entries.
MaxShown == 2

Callers == 1..NCallers

----------------------------------------------------------------------------
(* sec_get: constants. *)

\* _rate_limit_lock as created on line 20: held by no caller.
NoOne == 0

\* No response has been returned.
NoResult == 0

\* What requests.get gives when it raises instead of returning a response.
NetworkError == -1

\* 0.2 s, the spacing of line 37, in units of 100 ms.
Interval == 2

\* A loop that gives up one attempt early.
max_retries_short == 3 - 1

max_retries == 3

\* 10 s, in units of 100 ms.
backoff_factor == 100

\* The statuses the upstream answers with.
Statuses == {200, 404, 429}

Last(s) == s[Len(s)]

Min(a, b) == IF a < b THEN a ELSE b

Max(a, b) == IF a > b THEN a ELSE b

----------------------------------------------------------------------------
(* sec_get: the acquire section, lines 33-39. *)

\* A section that is entered without the lock.
LockFree_Unguarded == TRUE

\* `with _rate_limit_lock:` is entered only while nobody holds the lock.
LockFree == rate_limit_lock = NoOne

\* sec_get is called: the loop starts with attempt 0.
Call(c) ==
    /\ pc[c] = "idle"
    /\ pc' = [pc EXCEPT ![c] = "lock"]
    /\ attempt' = [attempt EXCEPT ![c] = 0]
    /\ UNCHANGED <<age, ticks, throttled, rate_limit_lock, gaps, timer,
                   answers, delays, trace, result>>
    /\ UNCHANGED <<resolver, query, app>>

\* A section that is entered without taking the lock.
Lock_NotTaken(c) ==
    /\ pc[c] = "lock"
    /\ pc' = [pc EXCEPT ![c] = "now"]
    /\ UNCHANGED <<age, ticks, throttled, rate_limit_lock, gaps, attempt,
                   timer, answers, delays, trace, result>>
    /\ UNCHANGED <<resolver, query, app>>

\* Line 33: the lock is taken.
Lock(c) ==
    /\ pc[c] = "lock"
    /\ LockFree
    /\ rate_limit_lock' = c
    /\ pc' = [pc EXCEPT ![c] = "now"]
    /\ UNCHANGED <<age, ticks, throttled, gaps, attempt, timer, answers,
                   delays, trace, result>>
    /\ UNCHANGED <<resolver, query, app>>

\* Lines 34-38: now, elapsed, and the sleep of 0.2 - elapsed when it is due.
ReadClock(c) ==
    /\ pc[c] = "now"
    /\ LET elapsed == age
       IN  IF elapsed < Interval
           THEN /\ timer' = [timer EXCEPT ![c] = Interval - elapsed]
                /\ pc' = [pc EXCEPT ![c] = "rate_sleep"]
           ELSE /\ pc' = [pc EXCEPT ![c] = "stamp"]
                /\ UNCHANGED timer
    /\ UNCHANGED <<age, ticks, throttled, rate_limit_lock, gaps, attempt,
                   answers, delays, trace, result>>
    /\ UNCHANGED <<resolver, query, app>>

\* Line 38: time.sleep returns, not before the time asked for has passed.
RateSleepDone(c) ==
    /\ pc[c] = "rate_sleep"
    /\ timer[c] = 0
    /\ pc' = [pc EXCEPT ![c] = "stamp"]
    /\ UNCHANGED <<age, ticks, throttled, rate_limit_lock, gaps, attempt,
                   timer, answers, delays, trace, result>>
    /\ UNCHANGED <<resolver, query, app>>

\* Line 39: _last_request_time = time.time().
Stamp(c) ==
    /\ pc[c] = "stamp"
    /\ gaps' = Append(gaps, age)
    /\ age' = 0
    /\ pc' = [pc EXCEPT ![c] = "unlock"]
    /\ UNCHANGED <<ticks, throttled, rate_limit_lock, attempt, timer, answers,
                   delays, trace, result>>
    /\ UNCHANGED <<resolver, query, app>>

\* A section that is left with the lock still held.
Unlock_Forgotten(c) ==
    /\ pc[c] = "unlock"
    /\ trace' = [trace EXCEPT ![c] = Append(@, "acquire")]
    /\ pc' = [pc EXCEPT ![c] = "get"]
    /\ UNCHANGED <<age, ticks, throttled, rate_limit_lock, gaps, attempt,
                   timer, answers, delays, result>>
    /\ UNCHANGED <<resolver, query, app>>

\* The end of the with block: the lock is released.
Unlock(c) ==
    /\ pc[c] = "unlock"
    /\ rate_limit_lock' = NoOne
    /\ trace' = [trace EXCEPT ![c] = Append(@, "acquire")]
    /\ pc' = [pc EXCEPT ![c] = "get"]
    /\ UNCHANGED <<age, ticks, throttled, gaps, attempt, timer, answers,
                   delays, result>>
    /\ UNCHANGED <<resolver, query, app>>

----------------------------------------------------------------------------
(* sec_get: the request and the retry, lines 40-47. *)

\* A backoff counted from the 0-based loop variable.
BackoffDelay_ZeroBased(a) == a * backoff_factor

\* Line 43: the backoff after the 429 of attempt a (0-based).
BackoffDelay(a) == (a + 1) * backoff_factor

\* Lines 40-45: requests.get returns a response with status s.
Respond(c, s) ==
    /\ pc[c] = "get"
    /\ trace' = [trace EXCEPT ![c] = Append(@, "get")]
    /\ answers' = [answers EXCEPT ![c] = Append(@, s)]
    /\ IF s = 429
       THEN /\ throttled < MaxThrottled
            /\ throttled' = throttled + 1
            /\ delays' = [delays EXCEPT ![c] = Append(@, BackoffDelay(attempt[c]))]
            /\ timer' = [timer EXCEPT ![c] = BackoffDelay(attempt[c])]
            /\ pc' = [pc EXCEPT ![c] = "backoff"]
            /\ UNCHANGED result
       ELSE /\ result' = [result EXCEPT ![c] = s]
            /\ pc' = [pc EXCEPT ![c] = "returned"]
            /\ UNCHANGED <<throttled, delays, timer>>
    /\ UNCHANGED <<age, ticks, rate_limit_lock, gaps, attempt>>
    /\ UNCHANGED <<resolver, query, app>>

\* A failed request that is retried after a backoff, like a 429.
NetworkFailure_Retried(c) ==
    /\ pc[c] = "get"
    /\ trace' = [trace EXCEPT ![c] = Append(@, "get")]
    /\ answers' = [answers EXCEPT ![c] = Append(@, NetworkError)]
    /\ delays' = [delays EXCEPT ![c] = Append(@, BackoffDelay(attempt[c]))]
    /\ timer' = [timer EXCEPT ![c] = BackoffDelay(attempt[c])]
    /\ pc' = [pc EXCEPT ![c] = "backoff"]
    /\ UNCHANGED <<age, ticks, throttled, rate_limit_lock, gaps, attempt,
                   result>>
    /\ UNCHANGED <<resolver, query, app>>

\* Line 40: requests.get raises (connection error, DNS failure, timeout);
\* nothing in sec_get catches it.
NetworkFailure(c) ==
    /\ pc[c] = "get"
    /\ trace' = [trace EXCEPT ![c] = Append(@, "get")]
    /\ answers' = [answers EXCEPT ![c] = Append(@, NetworkError)]
    /\ pc' = [pc EXCEPT ![c] = "raised"]
    /\ UNCHANGED <<age, ticks, throttled, rate_limit_lock, gaps, attempt,
                   timer, delays, result>>
    /\ UNCHANGED <<resolver, query, app>>

\* A retry that goes straight to the request, past the acquire section.
BackoffDone_Direct(c) ==
    /\ pc[c] = "backoff"
    /\ timer[c] = 0
    /\ IF attempt[c] + 1 < max_retries
       THEN /\ attempt' = [attempt EXCEPT ![c] = @ + 1]
            /\ pc' = [pc EXCEPT ![c] = "get"]
            /\ UNCHANGED result
       ELSE /\ result' = [result EXCEPT ![c] = Last(answers[c])]
            /\ pc' = [pc EXCEPT ![c] = "returned"]
            /\ UNCHANGED attempt
    /\ UNCHANGED <<age, ticks, throttled, rate_limit_lock, gaps, timer,
                   answers, delays, trace>>
    /\ UNCHANGED <<resolver, query, app>>

\* Line 43 returns; line 32 takes the next attempt, or the loop is over and
\* line 47 returns the last response.
BackoffDone(c) ==
    /\ pc[c] = "backoff"
    /\ timer[c] = 0
    /\ IF attempt[c] + 1 < max_retries
       THEN /\ attempt' = [attempt EXCEPT ![c] = @ + 1]
            /\ pc' = [pc EXCEPT ![c] = "lock"]
            /\ UNCHANGED result
       ELSE /\ result' = [result EXCEPT ![c] = Last(answers[c])]
            /\ pc' = [pc EXCEPT ![c] = "returned"]
            /\ UNCHANGED attempt
    /\ UNCHANGED <<age, ticks, throttled, rate_limit_lock, gaps, timer,
                   answers, delays, trace>>
    /\ UNCHANGED <<resolver, query, app>>

----------------------------------------------------------------------------
(* The clock.  The code reads time.time() only to compare its distance     *)
(* from _last_request_time with the interval, so the model keeps that      *)
(* distance (age), counted up to Interval, and what is left of each sleep. *)

Sleeping(c) == pc[c] \in {"rate_sleep", "backoff"}

\* d units of time pass.
Pass(d) ==
    /\ age' = Min(age + d, Interval)
    /\ timer' = [c \in Callers |-> Max(timer[c] - d, 0)]
    /\ UNCHANGED <<throttled, rate_limit_lock, gaps, pc, attempt, answers,
                   delays, trace, result>>
    /\ UNCHANGED <<resolver, query, app>>

\* 100 ms pass.
Tick ==
    /\ ticks < MaxTicks
    /\ ticks' = ticks + 1
    /\ Pass(1)

\* Time passes until the sleep of caller c is over.
Elapse(c) ==
    /\ Sleeping(c)
    /\ timer[c] > 0
    /\ Pass(timer[c])
    /\ UNCHANGED ticks

----------------------------------------------------------------------------
(* Text: a str is a sequence of one-letter strings. *)

Whitespace == {" "}

ToLower ==
    "A" :> "a" @@ "B" :> "b" @@ "C" :> "c" @@ "D" :> "d" @@ "E" :> "e" @@ "F" :> "f"
    @@ "G" :> "g" @@ "H" :> "h" @@ "I" :> "i" @@ "J" :> "j" @@ "K" :> "k" @@ "L" :> "l"
    @@ "M" :> "m" @@ "N" :> "n" @@ "O" :> "o" @@ "P" :> "p" @@ "Q" :> "q" @@ "R" :> "r"
    @@ "S" :> "s" @@ "T" :> "t" @@ "U" :> "u" @@ "V" :> "v" @@ "W" :> "w" @@ "X" :> "x"
    @@ "Y" :> "y" @@ "Z" :> "z"

\* str.lower()
Lower(t) ==
    [i \in 1..Len(t) |-> IF t[i] \in DOMAIN ToLower THEN ToLower[t[i]] ELSE t[i]]

RECURSIVE LStrip(_)
LStrip(t) ==
    IF t # << >> /\ Head(t) \in Whitespace THEN LStrip(Tail(t)) ELSE t

RECURSIVE RStrip(_)
RStrip(t) ==
    IF t # << >> /\ t[Len(t)] \in Whitespace
    THEN RStrip(SubSeq(t, 1, Len(t) - 1))
    ELSE t

\* str.strip()
Strip(t) == RStrip(LStrip(t))

\* str.endswith(suffix)
EndsWith(t, suffix) ==
    /\ Len(t) >= Len(suffix)
    /\ SubSeq(t, Len(t) - Len(suffix) + 1, Len(t)) = suffix

\* ch in t
Contains(t, ch) == \E i \in 1..Len(t) : t[i] = ch

RECURSIVE Remove(_, _)
\* str.replace(ch, "")
Remove(t, ch) ==
    IF t = << >> THEN << >>
    ELSE IF Head(t) = ch THEN Remove(Tail(t), ch)
    ELSE <<Head(t)>> \o Remove(Tail(t), ch)

\* A normalization that pads nothing.
Zfill_None(t, width) == t

\* A normalization that pads and then keeps the last width letters.
Zfill_Truncating(t, width) ==
    LET padded == [i \in 1..width |-> "0"] \o t
    IN  SubSeq(padded, Len(padded) - width + 1, Len(padded))

\* str.zfill(width): zeros on the left, after a leading sign, up to width.
Zfill(t, width) ==
    IF Len(t) >= width THEN t
    ELSE LET zeros == [i \in 1..(width - Len(t)) |-> "0"]
         IN  IF t # << >> /\ Head(t) \in {"+", "-"}
             THEN <<Head(t)>> \o zeros \o Tail(t)
             ELSE zeros \o t

\* Every sequence over S of length at most n.
SeqsUpTo(S, n) == UNION {[1..k -> S] : k \in 0..n}

----------------------------------------------------------------------------
(* What a function gives back: a value, or an exception it lets through. *)

Return(v) == [exception |-> "none", value |-> v]

Raise(e) == [exception |-> e, value |-> << >>]

\* The exception a call of sec_get followed by raise_for_status ends with,
\* given what sec_get did: raised (NetworkError) or returned a status.
FetchException(outcome) ==
    IF outcome = NetworkError THEN "ConnectionError"
    ELSE IF 400 <= outcome /\ outcome < 600 THEN "HTTPError"
    ELSE "none"

\* An except clause that lets connection errors through.
RequestException_HttpOnly == {"HTTPError"}

\* `except requests.RequestException`: the exceptions it catches.
RequestException == {"ConnectionError", "HTTPError"}

\* What sec_get ends with: an exception, or a response with a status.
FetchOutcomes == {NetworkError} \cup Statuses

----------------------------------------------------------------------------
(* get_native_filing_url, lines 49-85. *)

\* The fixed head of line 55, kept as one piece.
ArchivesPrefix == <<"https://www.sec.gov/Archives/edgar/data/">>

IndexName == <<"i", "n", "d", "e", "x", ".", "h", "t", "m", "l">>

\* Line 55.
BaseUrl(cik, accession_stripped) ==
    ArchivesPrefix \o cik \o <<"/">> \o accession_stripped \o <<"/">>

\* A filter that lets the files of subdirectories through.
Accepted_AnyFolder(href) ==
    LET lower_href == Lower(href)
    IN  /\ \/ EndsWith(lower_href, <<".", "h", "t", "m">>)
           \/ EndsWith(lower_href, <<".", "h", "t", "m", "l">>)
        /\ ~EndsWith(lower_href, <<".", "t", "x", "t">>)

\* Line 72-75: the test a stripped href passes to become a candidate.
Accepted(href) ==
    LET lower_href == Lower(href)
    IN  /\ \/ EndsWith(lower_href, <<".", "h", "t", "m">>)
           \/ EndsWith(lower_href, <<".", "h", "t", "m", "l">>)
        /\ ~Contains(href, "/")
        /\ ~EndsWith(lower_href, <<".", "t", "x", "t">>)

\* Lines 67-76.
CandidateFiles(links) ==
    SelectSeq([i \in 1..Len(links) |-> Strip(links[i])], Accepted)

\* A test that knows the index page in lower case only.
NotIndex_CaseSensitive(f) == f # IndexName

\* Line 79: the test of the list comprehension.
NotIndex(f) == Lower(f) # IndexName

\* A choice of the first candidate.
Chosen_First(files) == files[1]

\* Lines 81 and 83: files[-1].
Chosen(files) == files[Len(files)]

\* Lines 55-85, given what sec_get did and the hrefs of the page it got.
get_native_filing_url(cik, accession_stripped, outcome, links) ==
    LET base_url == BaseUrl(cik, accession_stripped)
        index_url == base_url \o IndexName
        exc == FetchException(outcome)
        candidate_files == CandidateFiles(links)
        non_index_candidates == SelectSeq(candidate_files, NotIndex)
    IN  IF exc # "none"
        THEN IF exc \in RequestException THEN Return(index_url) ELSE Raise(exc)
        ELSE IF non_index_candidates # << >>
             THEN Return(base_url \o Chosen(non_index_candidates))
        ELSE IF candidate_files # << >>
             THEN Return(base_url \o Chosen(candidate_files))
        ELSE Return(index_url)

ResolverIdle ==
    [pc |-> "idle", cik |-> << >>, accession_stripped |-> << >>,
     outcome |-> NoResult, links |-> << >>, exception |-> "none", url |-> << >>]

\* get_native_filing_url is called and asks sec_get for the listing page.
ResolveCall(cik, accession_stripped) ==
    /\ resolver.pc = "idle"
    /\ resolver' = [resolver EXCEPT !.pc = "fetch", !.cik = cik,
                                    !.accession_stripped = accession_stripped]
    /\ UNCHANGED <<fetchVars, query, app>>

\* sec_get is over, with a page of links when it returned a response, and
\* get_native_filing_url runs to its end.
ResolveReturn(outcome, links) ==
    /\ resolver.pc = "fetch"
    /\ outcome = NetworkError => links = << >>
    /\ LET r == get_native_filing_url(resolver.cik, resolver.accession_stripped,
                                      outcome, links)
       IN  resolver' = [resolver EXCEPT
                           !.pc = IF r.exception = "none" THEN "returned" ELSE "raised",
                           !.outcome = outcome,
                           !.links = links,
                           !.exception = r.exception,
                           !.url = r.value]
    /\ UNCHANGED <<fetchVars, query, app>>

----------------------------------------------------------------------------
(* get_filings, lines 87-123. *)

\* A filter that lets every form through.
Matches_Any(form, filing_type) == TRUE

\* Line 115: the filter.
Matches(form, filing_type) == form = filing_type

\* Line 117.
Stripped(accession_original) == Remove(accession_original, "-")

\* Line 93, its fixed head and tail kept as one piece each.
ManifestUrl(cik) ==
    <<"https://data.sec.gov/submissions/CIK">> \o cik \o <<".json">>

QueryIdle ==
    [pc |-> "idle", given |-> << >>, cik |-> << >>, base_url |-> << >>,
     filing_type |-> "", outcome |-> NoResult,
     body |-> "", forms |-> << >>, accession_numbers |-> << >>,
     filing_dates |-> << >>, i |-> 1, results |-> << >>, calls |-> << >>,
     exception |-> "none", value |-> << >>]

\* Lines 92-96: get_filings is called and asks sec_get for the manifest.
QueryCall(cik, filing_type) ==
    /\ query.pc = "idle"
    /\ query' = [query EXCEPT !.pc = "manifest", !.given = cik,
                              !.cik = Zfill(cik, 10),
                              !.base_url = ManifestUrl(Zfill(cik, 10)),
                              !.filing_type = filing_type]
    /\ UNCHANGED <<fetchVars, resolver, app>>

\* Lines 95-100: sec_get raised, or raise_for_status did: [] is returned.
QueryFetchFailed(outcome) ==
    /\ query.pc = "manifest"
    /\ FetchException(outcome) # "none"
    /\ IF FetchException(outcome) \in RequestException
       THEN query' = [query EXCEPT !.pc = "returned", !.outcome = outcome,
                                   !.value = << >>]
       ELSE query' = [query EXCEPT !.pc = "raised", !.outcome = outcome,
                                   !.exception = FetchException(outcome)]
    /\ UNCHANGED <<fetchVars, resolver, app>>

\* Lines 102-106: response.json() raises ValueError: [] is returned.
QueryNotJson(outcome) ==
    /\ query.pc = "manifest"
    /\ FetchException(outcome) = "none"
    /\ query' = [query EXCEPT !.pc = "returned", !.outcome = outcome,
                              !.body = "not JSON", !.value = << >>]
    /\ UNCHANGED <<fetchVars, resolver, app>>

\* Lines 103 and 108: the body is JSON but no object (an array, a string,
\* null): data.get raises AttributeError, which nothing catches.
QueryNotObject(outcome) ==
    /\ query.pc = "manifest"
    /\ FetchException(outcome) = "none"
    /\ query' = [query EXCEPT !.pc = "raised", !.outcome = outcome,
                              !.body = "JSON, no object",
                              !.exception = "AttributeError"]
    /\ UNCHANGED <<fetchVars, resolver, app>>

\* Lines 103-112: the body is a JSON object; an array it does not hold is
\* read as [].
QueryManifest(outcome, forms, accession_numbers, filing_dates) ==
    /\ query.pc = "manifest"
    /\ FetchException(outcome) = "none"
    /\ query' = [query EXCEPT !.pc = "loop", !.outcome = outcome,
                              !.body = "manifest", !.forms = forms,
                              !.accession_numbers = accession_numbers,
                              !.filing_dates = filing_dates,
                              !.i = 1, !.results = << >>]
    /\ UNCHANGED <<fetchVars, resolver, app>>

\* Lines 114-115: the form at i is not the one asked for.
QuerySkip ==
    /\ query.pc = "loop"
    /\ query.i <= Len(query.forms)
    /\ ~Matches(query.forms[query.i], query.filing_type)
    /\ query' = [query EXCEPT !.i = @ + 1]
    /\ UNCHANGED <<fetchVars, resolver, app>>

\* Line 116: accession_numbers[i] with i out of range raises IndexError.
QueryNoAccession ==
    /\ query.pc = "loop"
    /\ query.i <= Len(query.forms)
    /\ Matches(query.forms[query.i], query.filing_type)
    /\ query.i > Len(query.accession_numbers)
    /\ query' = [query EXCEPT !.pc = "raised", !.exception = "IndexError"]
    /\ UNCHANGED <<fetchVars, resolver, app>>

\* Lines 116-120: the form at i matches; get_native_filing_url is called,
\* with what its own sec_get does and the links of the page; then
\* filing_dates[i] is read, which raises IndexError when i is out of range.
QueryResolve(outcome, links) ==
    /\ query.pc = "loop"
    /\ query.i <= Len(query.forms)
    /\ Matches(query.forms[query.i], query.filing_type)
    /\ query.i <= Len(query.accession_numbers)
    /\ outcome = NetworkError => links = << >>
    /\ LET accession_original == query.accession_numbers[query.i]
           accession_stripped == Stripped(accession_original)
           r == get_native_filing_url(query.cik, accession_stripped, outcome, links)
           call == [index |-> query.i, cik |-> query.cik,
                    accession_stripped |-> accession_stripped, url |-> r.value]
       IN  IF r.exception # "none"
           THEN query' = [query EXCEPT !.pc = "raised", !.exception = r.exception,
                                       !.calls = Append(@, call)]
           ELSE IF query.i > Len(query.filing_dates)
           THEN query' = [query EXCEPT !.pc = "raised", !.exception = "IndexError",
                                       !.calls = Append(@, call)]
           ELSE query' = [query EXCEPT
                             !.calls = Append(@, call),
                             !.results = Append(@, <<query.filing_dates[query.i], r.value>>),
                             !.i = @ + 1]
    /\ UNCHANGED <<fetchVars, resolver, app>>

\* Line 123: the loop is over.
QueryReturn ==
    /\ query.pc = "loop"
    /\ query.i > Len(query.forms)
    /\ query' = [query EXCEPT !.pc = "returned", !.value = query.results]
    /\ UNCHANGED <<fetchVars, resolver, app>>

----------------------------------------------------------------------------
(* FilingSearchApp, lines 195-247: a search of the window. *)

\* The window before a search: no label, no thread, nothing for the event
\* loop to run.
AppIdle ==
    [label |-> "", entry |-> << >>, checked |-> << >>, worker |-> "none",
     cik |-> << >>, selected_types |-> << >>, results |-> << >>,
     queue |-> << >>, queued |-> 0, shown |-> << >>]

\* Lines 195-201: the label "Loading..." is shown and the thread is started;
\* entry is the text of the CIK field and checked the ticked types, in the
\* order of the check boxes.
start_search_filings(entry, checked) ==
    /\ app.worker = "none"
    /\ app' = [app EXCEPT !.label = "Loading...", !.entry = entry,
                          !.checked = checked, !.worker = "started"]
    /\ UNCHANGED <<fetchVars, resolver, query>>

\* Lines 205-222: the thread reads the field and the check boxes; with no
\* type ticked it queues update_results and ends.
WorkerSelect ==
    /\ app.worker = "started"
    /\ IF app.checked = << >>
       THEN app' = [app EXCEPT
                       !.cik = Strip(app.entry),
                       !.queue = Append(@, [callback |-> "update_results",
                                            results |-> << >>]),
                       !.queued = @ + 1,
                       !.worker = "done"]
       ELSE app' = [app EXCEPT !.cik = Strip(app.entry),
                               !.selected_types = app.checked,
                               !.results = << >>,
                               !.worker = "loop"]
    /\ UNCHANGED <<fetchVars, resolver, query>>

\* Lines 223-224: get_filings is called for the next selected type.
WorkerCall ==
    /\ app.worker = "loop"
    /\ Len(app.results) < Len(app.selected_types)
    /\ QueryCall(app.cik, app.selected_types[Len(app.results) + 1])

\* Lines 224-225: get_filings returned; its list is kept under the type.
WorkerStore ==
    /\ app.worker = "loop"
    /\ query.pc = "returned"
    /\ app' = [app EXCEPT !.results = Append(@, [filing_type |-> query.filing_type,
                                                 filings |-> query.value])]
    /\ query' = QueryIdle
    /\ UNCHANGED <<fetchVars, resolver>>

\* Line 224: get_filings raised. search_filings has no try, the exception
\* leaves the thread's target and the thread ends there.
WorkerDies ==
    /\ app.worker = "loop"
    /\ query.pc = "raised"
    /\ app' = [app EXCEPT !.worker = "died"]
    /\ UNCHANGED <<fetchVars, resolver, query>>

\* Line 226: every selected type is done; display_results is queued.
WorkerFinish ==
    /\ app.worker = "loop"
    /\ query.pc = "idle"
    /\ Len(app.results) = Len(app.selected_types)
    /\ app' = [app EXCEPT
                  !.queue = Append(@, [callback |-> "display_results",
                                       results |-> app.results]),
                  !.queued = @ + 1,
                  !.worker = "done"]
    /\ UNCHANGED <<fetchVars, resolver, query>>

\* Lines 228-247: the event loop runs the callback queued with
\* root.after(0, ...), which destroys the label and shows a message or the
\* results.
EventLoop ==
    /\ app.queue # << >>
    /\ LET event == Head(app.queue)
       IN  app' = [app EXCEPT
                      !.queue = Tail(@),
                      !.label = IF event.callback = "update_results"
                                THEN "Please select at least one filing type."
                                ELSE "",
                      !.shown = event.results]
    /\ UNCHANGED <<fetchVars, resolver, query>>

----------------------------------------------------------------------------
(* The specification of concurrent sec_get calls. *)

\* _last_request_time starts at 0 (line 21) and time.time() is far from the
\* epoch: the first elapsed time is not below the interval.
Init ==
    /\ age = Interval
    /\ ticks = 0
    /\ throttled = 0
    /\ rate_limit_lock = NoOne
    /\ gaps = << >>
    /\ pc = [c \in Callers |-> "idle"]
    /\ attempt = [c \in Callers |-> 0]
    /\ timer = [c \in Callers |-> 0]
    /\ answers = [c \in Callers |-> << >>]
    /\ delays = [c \in Callers |-> << >>]
    /\ trace = [c \in Callers |-> << >>]
    /\ result = [c \in Callers |-> NoResult]
    /\ resolver = ResolverIdle
    /\ query = QueryIdle
    /\ app = AppIdle

Next ==
    \/ \E c \in Callers : Call(c)
    \/ \E c \in Callers : Lock(c)
    \/ \E c \in Callers : ReadClock(c)
    \/ \E c \in Callers : RateSleepDone(c)
    \/ \E c \in Callers : Stamp(c)
    \/ \E c \in Callers : Unlock(c)
    \/ \E c \in Callers, s \in Statuses : Respond(c, s)
    \/ \E c \in Callers : NetworkFailure(c)
    \/ \E c \in Callers : BackoffDone(c)
    \/ \E c \in Callers : Elapse(c)
    \/ Tick

Spec == Init /\ [][Next]_vars

\* A thread that can take a step is scheduled in the end, a request ends
\* (with a response, or with an exception when its timeout is over), and
\* time passes until a sleep is over.
Fairness ==
    \A c \in Callers :
        /\ WF_vars(Lock(c))
        /\ WF_vars(ReadClock(c))
        /\ WF_vars(RateSleepDone(c))
        /\ WF_vars(Stamp(c))
        /\ WF_vars(Unlock(c))
        /\ WF_vars(NetworkFailure(c) \/ \E s \in Statuses : Respond(c, s))
        /\ WF_vars(BackoffDone(c))
        /\ WF_vars(Elapse(c))

FairSpec == Spec /\ Fairness

----------------------------------------------------------------------------
(* The inputs the calls are checked on. *)

\* Issuer ids as the user types them: short, empty, the 10 digits of
\* line 13, and 11 digits.
IssuerIds ==
    { <<"1", "2">>,
      << >>,
      <<"0", "0", "0", "1", "4", "1", "5", "9", "9", "5">>,
      <<"1", "2", "3", "4", "5", "6", "7", "8", "9", "0", "1">> }

Digits == <<"1", "2", "3", "4", "5", "6", "7", "8", "9">>

\* The accession number of the i-th filing of a manifest: "0i-23-i".
AccessionAt(i) == <<"0", Digits[i], "-", "2", "3", "-", Digits[i]>>

\* The date of the i-th filing of a manifest: "2023-0i-01".
DateAt(i) == <<"2", "0", "2", "3", "-", "0", Digits[i], "-", "0", "1">>

AccessionNumbers == {AccessionAt(i) : i \in 1..MaxFilings}

\* The arrays of a manifest: each filing has its own accession number and
\* date, and an array may stop short of the others.
Prefixes(s) == {SubSeq(s, 1, n) : n \in 0..Len(s)}

AccessionArrays == Prefixes([i \in 1..MaxFilings |-> AccessionAt(i)])

DateArrays == Prefixes([i \in 1..MaxFilings |-> DateAt(i)])

\* href values of a listing page: the index page in two spellings, two
\* documents, a document in a subdirectory, a text file, and a document
\* with blanks around its name.
Hrefs ==
    { <<"i", "n", "d", "e", "x", ".", "h", "t", "m", "l">>,
      <<"I", "n", "d", "e", "x", ".", "H", "T", "M", "L">>,
      <<"a", ".", "h", "t", "m">>,
      <<"b", ".", "H", "T", "M", "L">>,
      <<"d", "/", "c", ".", "h", "t", "m">>,
      <<"a", ".", "t", "x", "t">>,
      <<" ", "c", ".", "h", "t", "m", " ">> }

Listings == SeqsUpTo(Hrefs, MaxLinks)

\* The pages given to the resolver calls of a query, and to a resolver
\* call whose response has no success status.
SamplePages ==
    { << >>,
      << <<"i", "n", "d", "e", "x", ".", "h", "t", "m", "l">>,
         <<"a", ".", "h", "t", "m">>,
         <<"b", ".", "H", "T", "M", "L">> >> }

----------------------------------------------------------------------------
(* The specification of one call of get_native_filing_url. *)

NextResolve ==
    \/ \E id \in IssuerIds, a \in {AccessionAt(1), AccessionAt(2)} :
           ResolveCall(Zfill(id, 10), Remove(a, "-"))
    \/ \E outcome \in FetchOutcomes :
           \E links \in IF outcome \in 200..299 THEN Listings ELSE SamplePages :
               ResolveReturn(outcome, links)

SpecResolve == Init /\ [][NextResolve]_vars

----------------------------------------------------------------------------
(* The specification of one call of get_filings. *)

\* The filing types of lines 207-214 the manifests are made of.
Forms == {"485BXT", "497"}

NextQuery ==
    \/ \E id \in IssuerIds, filing_type \in Forms : QueryCall(id, filing_type)
    \/ \E outcome \in FetchOutcomes : QueryFetchFailed(outcome)
    \/ \E outcome \in FetchOutcomes : QueryNotJson(outcome)
    \/ \E outcome \in FetchOutcomes : QueryNotObject(outcome)
    \/ \E outcome \in FetchOutcomes,
          forms \in SeqsUpTo(Forms, MaxFilings),
          accession_numbers \in AccessionArrays,
          filing_dates \in DateArrays :
           QueryManifest(outcome, forms, accession_numbers, filing_dates)
    \/ QuerySkip
    \/ QueryNoAccession
    \/ \E outcome \in FetchOutcomes, links \in SamplePages :
           QueryResolve(outcome, links)
    \/ QueryReturn

SpecQuery == Init /\ [][NextQuery]_vars

----------------------------------------------------------------------------
(* The specification of one search of the window. *)

\* What the CIK field holds: an id typed with blanks around it, and the id
\* of line 13 that the first button puts there.
EntryTexts ==
    { <<" ", "1", "2", " ">>,
      <<"0", "0", "0", "1", "4", "1", "5", "9", "9", "5">> }

\* The ticked types, in the order of lines 207-216.
Selections == { << >>, <<"485BXT">>, <<"497">>, <<"485BXT", "497">> }

ShownAccessionArrays == Prefixes([i \in 1..MaxShown |-> AccessionAt(i)])
ShownDateArrays == Prefixes([i \in 1..MaxShown |-> DateAt(i)])

NextSearch ==
    \/ \E entry \in EntryTexts, checked \in Selections :
           start_search_filings(entry, checked)
    \/ WorkerSelect
    \/ WorkerCall
    \/ \E outcome \in FetchOutcomes : QueryFetchFailed(outcome)
    \/ \E outcome \in FetchOutcomes : QueryNotJson(outcome)
    \/ \E outcome \in FetchOutcomes : QueryNotObject(outcome)
    \/ \E outcome \in FetchOutcomes,
          forms \in SeqsUpTo(Forms, MaxShown),
          accession_numbers \in ShownAccessionArrays,
          filing_dates \in ShownDateArrays :
           QueryManifest(outcome, forms, accession_numbers, filing_dates)
    \/ QuerySkip
    \/ QueryNoAccession
    \/ \E outcome \in FetchOutcomes, links \in SamplePages :
           QueryResolve(outcome, links)
    \/ QueryReturn
    \/ WorkerStore
    \/ WorkerDies
    \/ WorkerFinish
    \/ EventLoop

SpecSearch == Init /\ [][NextSearch]_vars

\* The thread is scheduled, each request of get_filings ends within its
\* timeout and retries, and the event loop runs what is queued.
FairSearch == SpecSearch /\ WF_vars(NextSearch)

----------------------------------------------------------------------------
(* Properties of sec_get, checked under Spec. *)

\* Caller c has had an answer, and every answer was a 429.
AllThrottled(c) ==
    /\ Len(answers[c]) > 0
    /\ \A i \in DOMAIN answers[c] : answers[c][i] = 429

\* How many requests caller c has issued.
Requests(c) == Cardinality({i \in DOMAIN trace[c] : trace[c][i] = "get"})

\* C1: the values written to _last_request_time are at least 200 ms apart:
\* at every write, the time since the write before it is no less than the
\* interval, whatever the number of callers and their interleaving.
C1_MinimumSpacing == \A i \in DOMAIN gaps : gaps[i] >= Interval

\* Two writes, the second by a caller that was made to sleep: no time has
\* passed except through the sleep of line 38.
C1_Witness == Len(gaps) >= 2 /\ ticks = 0 /\ throttled = 0

\* C2: against an upstream that answers 429 to every attempt, a call issues
\* at most 3 requests, starts nothing after the 3rd, never raises, and
\* returns only after the 3rd, with the 429 as its value.
C2_ExhaustedRetries ==
    \A c \in Callers :
        AllThrottled(c) =>
            /\ Requests(c) = Len(answers[c])
            /\ Requests(c) <= 3
            /\ pc[c] # "raised"
            /\ Requests(c) = 3 => pc[c] \in {"backoff", "returned"}
            /\ pc[c] = "returned" => Requests(c) = 3 /\ result[c] = 429

C2_Witness ==
    \E c \in Callers :
        pc[c] = "returned" /\ answers[c] = <<429, 429, 429>> /\ result[c] = 429

\* C3: once the upstream has answered k times 429 (k = 0, 1, 2) and then
\* something else, the call has returned that answer, after k + 1 requests
\* and the k backoffs 10 s, 20 s in that order, and it stays so.
C3_RetryUntilOther ==
    \A c \in Callers :
        (Len(answers[c]) > 0 /\ Last(answers[c]) \notin {429, NetworkError}) =>
            LET k == Len(answers[c]) - 1
            IN  /\ k \in 0..2
                /\ \A i \in 1..k : answers[c][i] = 429
                /\ pc[c] = "returned"
                /\ result[c] = Last(answers[c])
                /\ Requests(c) = k + 1
                /\ delays[c] = SubSeq(<<100, 200>>, 1, k)

C3_Witness ==
    \E c \in Callers :
        /\ pc[c] = "returned"
        /\ answers[c] = <<429, 429, 200>>
        /\ delays[c] = <<100, 200>>

\* C4: once a request has failed at network level, the call has raised:
\* no backoff was started for the failure, no further request is issued,
\* nothing is returned and the caller does not hold the lock.
C4_FailureNotRetried ==
    \A c \in Callers :
        (Len(answers[c]) > 0 /\ Last(answers[c]) = NetworkError) =>
            /\ pc[c] = "raised"
            /\ rate_limit_lock # c
            /\ Requests(c) = Len(answers[c])
            /\ Len(delays[c]) = Len(answers[c]) - 1
            /\ timer[c] = 0
            /\ result[c] = NoResult

C4_Witness ==
    \E c \in Callers :
        pc[c] = "raised" /\ answers[c] = <<429, NetworkError>>

\* C5: every request of a caller, a retry included, comes right after a
\* completed acquire of that caller (lock taken, time written, lock
\* released), with no other request of its own in between.
C5_RequestAfterAcquire ==
    \A c \in Callers :
        /\ \A i \in DOMAIN trace[c] :
               trace[c][i] = "get" => i > 1 /\ trace[c][i - 1] = "acquire"
        /\ pc[c] = "get" =>
               /\ rate_limit_lock # c
               /\ Len(trace[c]) > 0
               /\ Last(trace[c]) = "acquire"
        /\ Len(gaps) >= Cardinality({i \in DOMAIN trace[c] : trace[c][i] = "acquire"})

C5_Witness ==
    \E c \in Callers : trace[c] = <<"acquire", "get", "acquire", "get">>

----------------------------------------------------------------------------
(* Properties of get_native_filing_url, checked under SpecResolve. *)

\* The URL of the listing page of the call.
ListingPageUrl ==
    ArchivesPrefix \o resolver.cik \o <<"/">> \o resolver.accession_stripped
        \o <<"/">> \o <<"i", "n", "d", "e", "x", ".", "h", "t", "m", "l">>

\* The folder of the call.
FolderUrl ==
    ArchivesPrefix \o resolver.cik \o <<"/">> \o resolver.accession_stripped
        \o <<"/">>

\* The listing page was fetched: a response, and a success status.
Fetched ==
    /\ resolver.pc = "returned"
    /\ resolver.outcome \in 200..299

\* C6: the resolver never raises, and what it returns is never empty; after
\* a network error or a response without a success status (a final 429
\* included) it returns the URL of the listing page.
C6_ResolverNeverFails ==
    /\ resolver.pc # "raised"
    /\ resolver.pc = "returned" =>
           /\ resolver.url # << >>
           /\ resolver.outcome \notin 200..299 => resolver.url = ListingPageUrl

C6_Witness ==
    /\ resolver.pc = "returned"
    /\ resolver.outcome = NetworkError
    /\ resolver.url = ListingPageUrl

\* The trimmed href ends in .htm or .html whatever the case, holds no "/",
\* and is not index.html in any case.
Qualifies(href) ==
    LET name == Strip(href)
    IN  /\ \/ EndsWith(Lower(name), <<".", "h", "t", "m">>)
           \/ EndsWith(Lower(name), <<".", "h", "t", "m", "l">>)
        /\ \A i \in 1..Len(name) : name[i] # "/"
        /\ Lower(name) # <<"i", "n", "d", "e", "x", ".", "h", "t", "m", "l">>

\* C7: when the fetched page has a link that passes the filter and is not
\* the index page, the resolver returns the folder URL followed by the last
\* such link of the page, whatever precedes or follows it.
C7_LastCandidateWins ==
    Fetched =>
        \A i \in 1..Len(resolver.links) :
            ( /\ Qualifies(resolver.links[i])
              /\ \A j \in (i + 1)..Len(resolver.links) :
                     ~Qualifies(resolver.links[j]) )
            => resolver.url = FolderUrl \o Strip(resolver.links[i])

\* Two different qualifying links, then the index page.
C7_Witness ==
    /\ Fetched
    /\ Len(resolver.links) = 3
    /\ Qualifies(resolver.links[1])
    /\ Qualifies(resolver.links[2])
    /\ Strip(resolver.links[1]) # Strip(resolver.links[2])
    /\ Lower(resolver.links[3]) = <<"i", "n", "d", "e", "x", ".", "h", "t", "m", "l">>
    /\ resolver.url = FolderUrl \o Strip(resolver.links[2])

----------------------------------------------------------------------------
(* Properties of get_filings, checked under SpecQuery. *)

\* The call is over.
QueryOver == query.pc \in {"returned", "raised"}

\* The manifest could not be had: sec_get raised, the status is no success
\* status, or the body is not a JSON object.
ManifestFailed ==
    \/ query.outcome = NetworkError
    \/ query.outcome \notin 200..299
    \/ query.body \in {"not JSON", "JSON, no object"}

\* C8: get_filings never raises; when the manifest could not be had it
\* returns an empty list and has not called get_native_filing_url.
C8_DegradesToEmpty ==
    /\ query.pc # "raised"
    /\ (QueryOver /\ ManifestFailed) =>
           /\ query.pc = "returned"
           /\ query.value = << >>
           /\ query.calls = << >>

\* The indices below n whose form is the one asked for.
MatchingBelow(n) ==
    {j \in 1..Len(query.forms) : j < n /\ query.forms[j] = query.filing_type}

\* The three arrays of the manifest are of one length.
WellFormed ==
    /\ query.body = "manifest"
    /\ Len(query.forms) = Len(query.accession_numbers)
    /\ Len(query.forms) = Len(query.filing_dates)

\* Index j has its accession number and its date.
Complete(j) ==
    j <= Len(query.accession_numbers) /\ j <= Len(query.filing_dates)

\* C9: with arrays of unequal lengths get_filings does not raise, and it
\* returns one record for each matching index that has all three fields,
\* in order, the others skipped.
C9_MalformedManifest ==
    (query.body = "manifest" /\ ~WellFormed) =>
        /\ query.pc # "raised"
        /\ query.pc = "returned" =>
               LET emitted == {j \in MatchingBelow(Len(query.forms) + 1) : Complete(j)}
               IN  /\ Len(query.value) = Cardinality(emitted)
                   /\ \A j \in emitted :
                          query.value[Cardinality({x \in emitted : x <= j})][1]
                              = query.filing_dates[j]

NotDash(ch) == ch # "-"

\* C10: for a well-formed manifest, the indices gone through so far have
\* given one resolver call and one record for each index whose form is
\* exactly the one asked for, in increasing order of index; the call was
\* for the accession number without its "-", the record pairs the date at
\* that index with the URL that call returned, fallback or not; at the end
\* these records are returned as they are.
C10_FilterAndOrder ==
    WellFormed =>
        LET done == MatchingBelow(query.i)
        IN  /\ query.pc # "raised"
            /\ Len(query.calls) = Cardinality(done)
            /\ Len(query.results) = Cardinality(done)
            /\ \A j \in done :
                   LET k == Cardinality({x \in done : x <= j})
                   IN  /\ query.calls[k].index = j
                       /\ query.calls[k].accession_stripped
                              = SelectSeq(query.accession_numbers[j], NotDash)
                       /\ query.results[k]
                              = <<query.filing_dates[j], query.calls[k].url>>
            /\ query.pc = "returned" =>
                   /\ query.i = Len(query.forms) + 1
                   /\ query.value = query.results

\* The forms 497, 485BXT, 497 asked for 497: two records, the first with
\* the fallback URL and the second with a document of the page.
C10_Witness ==
    /\ query.pc = "returned"
    /\ query.filing_type = "497"
    /\ query.forms = <<"497", "485BXT", "497">>
    /\ WellFormed
    /\ Len(query.value) = 2
    /\ query.value[1][1] = DateAt(1)
    /\ query.value[2][1] = DateAt(3)
    /\ EndsWith(query.value[1][2], <<"/", "i", "n", "d", "e", "x", ".", "h", "t", "m", "l">>)
    /\ EndsWith(query.value[2][2], <<"/", "b", ".", "H", "T", "M", "L">>)

\* The letters 0 to 9.
DigitLetters == {"0", "1", "2", "3", "4", "5", "6", "7", "8", "9"}

\* The part of a URL between its fixed head and the next piece that is no
\* digit: the issuer id as it stands in the URL.
RECURSIVE LeadingDigits(_)
LeadingDigits(t) ==
    IF t # << >> /\ Head(t) \in DigitLetters
    THEN <<Head(t)>> \o LeadingDigits(Tail(t))
    ELSE << >>

IdInUrl(url) == LeadingDigits(Tail(url))

\* Every URL the call has built so far holds an issuer id of 10 digits: the
\* manifest URL, and the URL each resolver call returned, which starts with
\* the folder the listing page is in.
TenDigitsInUrls ==
    /\ Len(IdInUrl(query.base_url)) = 10
    /\ \A k \in 1..Len(query.calls) : Len(IdInUrl(query.calls[k].url)) = 10

\* C11 as stated: for every issuer id given to get_filings, the id in the
\* manifest URL and in every listing-page URL is exactly 10 digits long.
C11_TenDigitsForEveryId == query.pc # "idle" => TenDigitsInUrls

\* C11, amended: the same for every issuer id of at most 10 digits.
C11_TenDigitsUpToTen ==
    (query.pc # "idle" /\ Len(query.given) <= 10) => TenDigitsInUrls

\* The id 12 was given, and two resolver calls were made.
C11_Witness ==
    /\ query.given = <<"1", "2">>
    /\ Len(query.calls) = 2
    /\ TenDigitsInUrls

----------------------------------------------------------------------------
(* Properties of the lock of sec_get, checked under Spec and FairSpec. *)

\* The lines of the with block, 34-39.
InSection(c) == pc[c] \in {"now", "rate_sleep", "stamp", "unlock"}

\* C12: a caller that sleeps to keep the 200 ms interval does not hold the
\* lock while it sleeps.
C12_SleepOutsideLock ==
    \A c \in Callers : pc[c] = "rate_sleep" => rate_limit_lock # c

\* C13: a backoff of n x 10 s is slept only after attempt n was answered
\* 429 and only before another attempt: never after the 3rd, so that a call
\* answered 429 throughout has slept 10 s + 20 s when it returns.
C13_BackoffBetweenAttempts ==
    \A c \in Callers :
        /\ Len(delays[c]) <= 2
        /\ \A n \in 1..Len(delays[c]) :
               delays[c][n] = n * 100 /\ answers[c][n] = 429
        /\ (pc[c] = "returned" /\ AllThrottled(c)) => delays[c] = <<100, 200>>

\* C14: at most one caller is on the lines that read and write
\* _last_request_time, and a caller on them holds the lock.
C14_SerializedAccess ==
    /\ Cardinality({c \in Callers : InSection(c)}) <= 1
    /\ \A c \in Callers : InSection(c) => rate_limit_lock = c

\* One caller is about to write the time while another waits for the lock.
C14_Witness ==
    \E c, d \in Callers :
        pc[c] = "stamp" /\ rate_limit_lock = c /\ pc[d] = "lock"

\* C18: a caller holds the lock on the lines of the with block only, never
\* during its request or its backoff; a lock that is held is released, and
\* every call that was started ends.
C18_LockNeverKept ==
    /\ [](\A c \in Callers : rate_limit_lock = c => InSection(c))
    /\ \A c \in Callers : (rate_limit_lock = c) ~> (rate_limit_lock = NoOne)
    /\ \A c \in Callers : (pc[c] = "lock") ~> (pc[c] \in {"returned", "raised"})

\* One caller sleeps in its backoff while another holds the lock.
C18_Witness ==
    \E c, d \in Callers :
        pc[c] = "backoff" /\ timer[c] > 0 /\ rate_limit_lock = d /\ pc[d] = "stamp"

----------------------------------------------------------------------------
(* Fallbacks of the resolver, checked under SpecResolve. *)

\* The trimmed href ends in .htm or .html whatever the case and holds no "/".
Filtered(href) ==
    LET name == Strip(href)
    IN  /\ \/ EndsWith(Lower(name), <<".", "h", "t", "m">>)
           \/ EndsWith(Lower(name), <<".", "h", "t", "m", "l">>)
        /\ \A i \in 1..Len(name) : name[i] # "/"

\* The trimmed href is index.html in some case.
IndexNamed(href) ==
    Lower(Strip(href)) = <<"i", "n", "d", "e", "x", ".", "h", "t", "m", "l">>

\* The page has links that pass the filter, and all of them are index-named.
IndexOnly ==
    /\ \E i \in 1..Len(resolver.links) : Filtered(resolver.links[i])
    /\ \A i \in 1..Len(resolver.links) :
           Filtered(resolver.links[i]) => IndexNamed(resolver.links[i])

\* The last link of the page that passes the filter, trimmed.
LastFiltered ==
    LET i == CHOOSE k \in 1..Len(resolver.links) :
                 /\ Filtered(resolver.links[k])
                 /\ \A j \in (k + 1)..Len(resolver.links) :
                        ~Filtered(resolver.links[j])
    IN  Strip(resolver.links[i])

\* C15: when no link of the fetched page passes the filter (no link at all,
\* links with a "/" only, or links that do not end in .htm or .html), the
\* resolver returns the URL of the listing page.
C15_NoLinkFallsBack ==
    (Fetched /\ \A i \in 1..Len(resolver.links) : ~Filtered(resolver.links[i]))
        => resolver.url = ListingPageUrl

\* A page with a subdirectory link and a text file only.
C15_Witness ==
    /\ Fetched
    /\ \E i \in 1..Len(resolver.links) :
           \E k \in 1..Len(resolver.links[i]) : resolver.links[i][k] = "/"
    /\ \E i \in 1..Len(resolver.links) :
           EndsWith(resolver.links[i], <<".", "t", "x", "t">>)
    /\ \A i \in 1..Len(resolver.links) : ~Filtered(resolver.links[i])
    /\ resolver.url = ListingPageUrl

\* C16 as stated: when every link of the fetched page that passes the filter
\* is index-named, the resolver returns the folder URL followed by the last
\* of them, and that is the URL of the listing page.
C16_IndexOnlyIsListing ==
    (Fetched /\ IndexOnly) =>
        /\ resolver.url = FolderUrl \o LastFiltered
        /\ resolver.url = ListingPageUrl

\* C16, amended: the resolver returns the folder URL followed by the last
\* index-named link as the page spells it, which is the URL of the listing
\* page exactly when the link is spelled index.html in lower case.
C16_IndexOnlyAsSpelled ==
    (Fetched /\ IndexOnly) =>
        /\ resolver.url = FolderUrl \o LastFiltered
        /\ resolver.url = ListingPageUrl
               <=> LastFiltered = <<"i", "n", "d", "e", "x", ".", "h", "t", "m", "l">>

\* Two index-named links, the last one in another case than index.html.
C16_Witness ==
    /\ Fetched
    /\ IndexOnly
    /\ Len(resolver.links) >= 2
    /\ resolver.links[1] = <<"i", "n", "d", "e", "x", ".", "h", "t", "m", "l">>
    /\ LastFiltered = <<"I", "n", "d", "e", "x", ".", "H", "T", "M", "L">>
    /\ resolver.url = FolderUrl \o LastFiltered

----------------------------------------------------------------------------
(* Normalization of the issuer id, checked under SpecQuery. *)

\* C17: an id of fewer than 10 characters, the empty one included, becomes
\* the same characters after as many "0" as make 10; an id of 10 characters
\* or more is left as it is; normalizing twice changes nothing more.
C17_Normalization ==
    query.pc # "idle" =>
        LET n == Len(query.given)
        IN  /\ n < 10 =>
                   /\ Len(query.cik) = 10
                   /\ \A i \in 1..(10 - n) : query.cik[i] = "0"
                   /\ \A i \in 1..n : query.cik[10 - n + i] = query.given[i]
            /\ n >= 10 => query.cik = query.given
            /\ Zfill(query.cik, 10) = query.cik

\* The empty id became ten zeros, and a query with it went through.
C17_Witness ==
    /\ query.pc = "returned"
    /\ query.given = << >>
    /\ query.cik = <<"0", "0", "0", "0", "0", "0", "0", "0", "0", "0">>
    /\ Len(query.calls) > 0

----------------------------------------------------------------------------
(* The search of the window, checked under FairSearch. *)

\* The callback the search has to queue: update_results when no type is
\* ticked, display_results with one entry for each ticked type otherwise.
Completion ==
    IF app.checked = << >>
    THEN [callback |-> "update_results", results |-> << >>]
    ELSE [callback |-> "display_results", results |-> app.results]

\* One entry for each ticked type, in their order.
OnePerType ==
    /\ Len(app.results) = Len(app.checked)
    /\ \A k \in 1..Len(app.results) : app.results[k].filing_type = app.checked[k]

\* C19: a search started from the window queues one callback and no more,
\* update_results when no type is ticked and display_results with one entry
\* for each ticked type otherwise, whatever the upstream answers, and the
\* label "Loading..." is replaced in the end.
C19_SearchCompletes ==
    /\ [](app.queued <= 1)
    /\ [](app.queue # << >> =>
              app.queue = <<Completion>> /\ (app.checked # << >> => OnePerType))
    /\ (app.worker = "started") ~> (app.queued = 1)
    /\ (app.label = "Loading...") ~> (app.label # "Loading...")

====
